---- MODULE Spec2Model ----
(***************************************************************************)
(* Solar wind dispersion components of PINT                                *)
(* (src/src/pint/models/solar_wind_dispersion.py):                         *)
(*   SolarWindDispersion           constant-density model (NE_SW, SWM)     *)
(*   SphericalSolarWindDispersion  power-law model        (NE_SWP, SWP)    *)
(*                                                                         *)
(* Real numbers are fixed-point: an integer n stands for n / Den.          *)
(* Array entries are symbolic terms: the transcendental formulas are not   *)
(* evaluated, a term records which formula produced the entry, from which  *)
(* observation and with which parameter values.  Quantities carry their    *)
(* physical dimension, so that astropy's Quantity.to() can fail.           *)
(***************************************************************************)
EXTENDS Integers, Sequences, FiniteSets, TLC

\* ---------------------------------------------------------------- bounds
\* fixed-point resolution: the integer n stands for the real n / Den
Den == 2
\* amplitudes NE_SW / NE_SWP range over 0 .. MaxNE (in units of 1/Den cm^-3)
MaxNE == 1
\* observation sets have at most MaxLen observations
MaxLen == 2

VARIABLES
    cls,        \* the class of the component instance
    NE_SW,      \* SolarWindDispersion.NE_SW.value
    SWM,        \* SolarWindDispersion.SWM.value
    NE_SWP,     \* SphericalSolarWindDispersion.NE_SWP.value
    SWP,        \* SphericalSolarWindDispersion.SWP.value
    toas,       \* the observation set handed to the calls
    baryAvail,  \* _parent has barycentric_radio_freq
    sunRaises,  \* _parent.sun_angle raises when called
    last,       \* the most recent call since the last parameter mutation
    snap        \* one remembered earlier call (only in SpecMemo)

vars == <<cls, NE_SW, SWM, NE_SWP, SWP, toas, baryAvail, sunRaises, last, snap>>

Classes == {"SolarWindDispersion", "SphericalSolarWindDispersion"}

\* ------------------------------------------------------------ input sets
NEValues == 0 .. MaxNE
\* SWM is a floatParameter: 0, fractions, and 1.0 (= Den)
SWMValues == 0 .. Den
\* SWP: 1.0, the next value above 1.0, and the default 2.0
SWPValues == {Den, Den + 1, 2 * Den}
\* radio frequencies in MHz: just below 1 MHz and exactly 1 MHz
FreqValues == {Den - 1, Den}
Obs == [freq : FreqValues, bfreq : FreqValues]
ToasSets == UNION {[1 .. n -> Obs] : n \in 0 .. MaxLen}

\* ------------------------------------------------------------------ units
\* physical dimension of a unit: exponents of length and of time
dimensionless == [L |-> 0, T |-> 0]
pc_per_cm3 == [L |-> 0 - 2, T |-> 0]
per_cm3 == [L |-> 0 - 3, T |-> 0]
au == [L |-> 1, T |-> 0]
second == [L |-> 0, T |-> 1]

UnitMul(a, b) == [L |-> a.L + b.L, T |-> a.T + b.T]
UnitDiv(a, b) == [L |-> a.L - b.L, T |-> a.T - b.T]

\* ------------------------------------------------------- symbolic values
\* fn: formula that produced the entry; scaled/ne: multiplied by an
\* amplitude ne; p: power-law index used; i: observation index;
\* via: external conversion applied on top
Term(fn, scaled, ne, p, i, via) ==
    [fn |-> fn, scaled |-> scaled, ne |-> ne, p |-> p, i |-> i, via |-> via]

Zero == Term("zero", FALSE, 0, 0, 0, "")

\* np.zeros(n)
zeros(n) == [i \in 1 .. n |-> Zero]

\* amplitude * entry, in floating point with finite entries
Times(ne, x) ==
    IF ne = 0 \/ x = Zero THEN Zero ELSE [x EXCEPT !.scaled = TRUE, !.ne = ne]

\* ------------------------------------------------------- call outcomes
NoEff == [sun |-> 0, eval |-> 0, mach |-> 0, warns |-> 0, topo |-> FALSE, bary |-> FALSE]

Plus(e, f) ==
    [sun |-> e.sun + f.sun, eval |-> e.eval + f.eval, mach |-> e.mach + f.mach,
     warns |-> e.warns + f.warns, topo |-> e.topo \/ f.topo, bary |-> e.bary \/ f.bary]

NoMsg == [text |-> "", d |-> 0]

Ok(vals, unit, eff) ==
    [outcome |-> "ok", vals |-> vals, unit |-> unit, msg |-> NoMsg, eff |-> eff]

Raise(exc, msg, eff) ==
    [outcome |-> exc, vals |-> <<>>, unit |-> dimensionless, msg |-> msg, eff |-> eff]

\* Quantity.to(unit): converts between units of the same dimension only
To(q, unit) ==
    IF q.unit = unit THEN q
    ELSE Raise("UnitConversionError", NoMsg, q.eff)

\* "%d" % x : the float truncated toward zero to an integer
FormatD(x) == IF x >= 0 THEN x \div Den ELSE 0 - ((0 - x) \div Den)

SWMNotImplemented ==
    [text |-> "Solar Dispersion Delay not implemented for SWM %d", d |-> FormatD(SWM)]

SWPNotImplemented ==
    [text |-> "Spherical Solar Dispersion Delay not implemented for power-law index p <= 1",
     d |-> 0]

\* ------------------------------------------------- external collaborators
\* self._parent.sun_angle(toas, also_distance=True)
sun_angle(t) ==
    IF sunRaises
    THEN Raise("ProviderError", NoMsg, [NoEff EXCEPT !.sun = 1])
    ELSE Ok(<<>>, dimensionless, [NoEff EXCEPT !.sun = 1])

\* self._parent.barycentric_radio_freq(toas)
barycentric_radio_freq(t) ==
    IF baryAvail
    THEN Ok([i \in 1 .. Len(t) |-> t[i].bfreq], dimensionless, [NoEff EXCEPT !.bary = TRUE])
    ELSE Raise("AttributeError", NoMsg, NoEff)

\* ------------------------------------------------- SolarWindDispersion
SolarWindDispersion_solar_wind_geometry(t) ==
    LET sa == sun_angle(t) IN
    IF sa.outcome # "ok" THEN sa
    ELSE Ok([i \in 1 .. Len(t) |-> Term("edwards", FALSE, 0, 0, i, "")],
            UnitDiv(UnitMul(au, au), au), sa.eff)

\* solar_wind_dm without the zero-amplitude check of line 81
solar_wind_dm_unguarded(t) ==
    IF SWM = 0
    THEN LET g == SolarWindDispersion_solar_wind_geometry(t) IN
         IF g.outcome # "ok" THEN g
         ELSE To(Ok([i \in 1 .. Len(t) |-> Times(NE_SW, g.vals[i])],
                    UnitMul(per_cm3, g.unit), g.eff),
                 pc_per_cm3)
    ELSE Raise("NotImplementedError", SWMNotImplemented, NoEff)

SolarWindDispersion_solar_wind_dm(t) ==
    IF NE_SW = 0 THEN Ok(zeros(Len(t)), pc_per_cm3, NoEff)
    ELSE IF SWM = 0
    THEN LET g == SolarWindDispersion_solar_wind_geometry(t) IN
         IF g.outcome # "ok" THEN g
         ELSE To(Ok([i \in 1 .. Len(t) |-> Times(NE_SW, g.vals[i])],
                    UnitMul(per_cm3, g.unit), g.eff),
                 pc_per_cm3)
    ELSE Raise("NotImplementedError", SWMNotImplemented, NoEff)

\* d_dm_d_ne_sw with the zero-amplitude check of solar_wind_dm put in front
d_dm_d_ne_sw_zero_guarded(t) ==
    IF NE_SW = 0 THEN Ok(zeros(Len(t)), pc_per_cm3, NoEff)
    ELSE IF SWM = 0 THEN SolarWindDispersion_solar_wind_geometry(t)
    ELSE Raise("NotImplementedError", SWMNotImplemented, NoEff)

SolarWindDispersion_d_dm_d_ne_sw(t) ==
    IF SWM = 0 THEN SolarWindDispersion_solar_wind_geometry(t)
    ELSE Raise("NotImplementedError", SWMNotImplemented, NoEff)

\* --------------------------------------- SphericalSolarWindDispersion
SphericalSolarWindDispersion_solar_wind_geometry(t) ==
    LET p == SWP
        sa == sun_angle(t)
    IN  IF sa.outcome # "ok" THEN sa
        ELSE IF NE_SWP = 0 THEN Ok(zeros(Len(t)), pc_per_cm3, sa.eff)
        ELSE IF p > Den
        THEN Ok([i \in 1 .. Len(t) |-> Term("hazboun", FALSE, 0, p, i, "")],
                UnitMul(UnitMul(dimensionless, au), dimensionless), sa.eff)
        ELSE Raise("NotImplementedError", SWPNotImplemented, sa.eff)

SphericalSolarWindDispersion_solar_wind_dm(t) ==
    LET g == SphericalSolarWindDispersion_solar_wind_geometry(t) IN
    IF g.outcome # "ok" THEN g
    ELSE To(Ok([i \in 1 .. Len(t) |-> Times(NE_SWP, g.vals[i])],
               UnitMul(per_cm3, g.unit), g.eff),
            pc_per_cm3)

SphericalSolarWindDispersion_d_dm_d_ne_sw(t) ==
    SphericalSolarWindDispersion_solar_wind_geometry(t)

\* -------------------------------------- Dispersion base class (external)
\* the functions this component registered with its base class
dm_value_funcs(t) ==
    IF cls = "SolarWindDispersion"
    THEN SolarWindDispersion_solar_wind_dm(t)
    ELSE SphericalSolarWindDispersion_solar_wind_dm(t)

dm_deriv_funcs(t, param_name) ==
    IF cls = "SolarWindDispersion" /\ param_name = "NE_SW"
    THEN SolarWindDispersion_d_dm_d_ne_sw(t)
    ELSE IF cls = "SphericalSolarWindDispersion" /\ param_name = "NE_SWP"
    THEN SphericalSolarWindDispersion_d_dm_d_ne_sw(t)
    ELSE Raise("AttributeError", NoMsg, NoEff)

\* converts the DM of the component into a delay
dispersion_type_delay(t) ==
    LET dm == dm_value_funcs(t)
        e == Plus(dm.eff, [NoEff EXCEPT !.eval = 1])
    IN  IF dm.outcome # "ok" THEN [dm EXCEPT !.eff = e]
        ELSE Ok([i \in 1 .. Len(t) |->
                    IF dm.vals[i] = Zero THEN Zero
                    ELSE [dm.vals[i] EXCEPT !.via = "dispersion_type_delay"]],
                second, e)

\* chain rule: derivative of the delay with respect to a DM parameter
d_delay_d_dmparam(t, param_name) ==
    LET d == dm_deriv_funcs(t, param_name)
        e == Plus(d.eff, [NoEff EXCEPT !.mach = 1])
    IN  IF d.outcome # "ok" THEN [d EXCEPT !.eff = e]
        ELSE Ok([i \in 1 .. Len(t) |->
                    IF d.vals[i] = Zero THEN Zero
                    ELSE [d.vals[i] EXCEPT !.via = param_name]],
                second, e)

\* ------------------------------------------------ delay and derivative
\* solar_wind_delay keeping a result across parameter mutations
solar_wind_delay_cached(t) ==
    IF snap.op = "solar_wind_delay" /\ snap.stale THEN snap.res
    ELSE IF NE_SW = 0 THEN Ok(zeros(Len(t)), second, NoEff)
    ELSE dispersion_type_delay(t)

SolarWindDispersion_solar_wind_delay(t) ==
    IF NE_SW = 0 THEN Ok(zeros(Len(t)), second, NoEff)
    ELSE dispersion_type_delay(t)

SphericalSolarWindDispersion_solar_wind_delay(t) ==
    IF NE_SWP = 0 THEN Ok(zeros(Len(t)), second, NoEff)
    ELSE dispersion_type_delay(t)

\* bfreq <= 1.0 * u.MHz
BelowMHz_inclusive(f) == f <= Den

\* bfreq < 1.0 * u.MHz
BelowMHz(f) == f < Den

\* deriv[bfreq < 1.0 * u.MHz] = 0.0
Mask(deriv, bfreq) ==
    [i \in 1 .. Len(deriv) |-> IF BelowMHz(bfreq[i]) THEN Zero ELSE deriv[i]]

\* the fallback to toas.table["freq"] without the warning
GetFreq_silent(t) ==
    LET b == barycentric_radio_freq(t) IN
    IF b.outcome = "AttributeError"
    THEN Ok([i \in 1 .. Len(t) |-> t[i].freq], dimensionless, [NoEff EXCEPT !.topo = TRUE])
    ELSE b

\* try: barycentric_radio_freq  except AttributeError: warn, toas.table["freq"]
GetFreq(t) ==
    LET b == barycentric_radio_freq(t) IN
    IF b.outcome = "AttributeError"
    THEN Ok([i \in 1 .. Len(t) |-> t[i].freq], dimensionless,
            [NoEff EXCEPT !.warns = 1, !.topo = TRUE])
    ELSE b

SolarWindDispersion_d_delay_d_ne_sw(t) ==
    LET bfreq == GetFreq(t)
        deriv == d_delay_d_dmparam(t, "NE_SW")
        e == Plus(bfreq.eff, deriv.eff)
    IN  IF deriv.outcome # "ok" THEN [deriv EXCEPT !.eff = e]
        ELSE Ok(Mask(deriv.vals, bfreq.vals), deriv.unit, e)

SphericalSolarWindDispersion_d_delay_d_ne_sw(t) ==
    LET bfreq == GetFreq(t)
        deriv == d_delay_d_dmparam(t, "NE_SWP")
        e == Plus(bfreq.eff, deriv.eff)
    IN  IF deriv.outcome # "ok" THEN [deriv EXCEPT !.eff = e]
        ELSE Ok(Mask(deriv.vals, bfreq.vals), deriv.unit, e)

\* ------------------------------------------------------------ the calls
SW == cls = "SolarWindDispersion"
SSW == cls = "SphericalSolarWindDispersion"

Params == <<NE_SW, SWM, NE_SWP, SWP>>

NoCall == [op |-> "none", res |-> Ok(<<>>, dimensionless, NoEff),
           pre |-> <<0, 0, 0, 0>>, obs |-> <<>>]

NoSnap == [op |-> "none", res |-> Ok(<<>>, dimensionless, NoEff),
           key |-> <<0, 0, 0, 0>>, stale |-> FALSE]

\* a call of method op that ended with res; it assigns nothing to the
\* parameters nor to the observation set
Call(op, res, memo) ==
    /\ last' = [op |-> op, res |-> res, pre |-> Params, obs |-> toas]
    /\ UNCHANGED <<cls, NE_SW, SWM, NE_SWP, SWP, toas, baryAvail, sunRaises>>
    /\ IF memo
       THEN snap' \in {snap, [op |-> op, res |-> res, key |-> Params, stale |-> FALSE]}
       ELSE UNCHANGED snap

SolarWind_solar_wind_geometry ==
    SW /\ Call("solar_wind_geometry", SolarWindDispersion_solar_wind_geometry(toas), FALSE)

SolarWind_solar_wind_dm ==
    SW /\ Call("solar_wind_dm", SolarWindDispersion_solar_wind_dm(toas), FALSE)

SolarWind_solar_wind_delay ==
    SW /\ Call("solar_wind_delay", SolarWindDispersion_solar_wind_delay(toas), FALSE)

SolarWind_d_dm_d_ne_sw ==
    SW /\ Call("d_dm_d_ne_sw", SolarWindDispersion_d_dm_d_ne_sw(toas), FALSE)

SolarWind_d_delay_d_ne_sw ==
    SW /\ Call("d_delay_d_ne_sw", SolarWindDispersion_d_delay_d_ne_sw(toas), FALSE)

Spherical_solar_wind_geometry ==
    SSW /\ Call("solar_wind_geometry", SphericalSolarWindDispersion_solar_wind_geometry(toas), FALSE)

Spherical_solar_wind_dm ==
    SSW /\ Call("solar_wind_dm", SphericalSolarWindDispersion_solar_wind_dm(toas), FALSE)

Spherical_solar_wind_delay ==
    SSW /\ Call("solar_wind_delay", SphericalSolarWindDispersion_solar_wind_delay(toas), FALSE)

Spherical_d_dm_d_ne_sw ==
    SSW /\ Call("d_dm_d_ne_sw", SphericalSolarWindDispersion_d_dm_d_ne_sw(toas), FALSE)

Spherical_d_delay_d_ne_sw ==
    SSW /\ Call("d_delay_d_ne_sw", SphericalSolarWindDispersion_d_delay_d_ne_sw(toas), FALSE)

\* ------------------------------- parameter mutation by the fitting framework
Mutated ==
    /\ last' = NoCall
    /\ snap' = IF snap.op = "none" THEN snap ELSE [snap EXCEPT !.stale = TRUE]
    /\ UNCHANGED <<cls, toas, baryAvail, sunRaises>>

Set_NE_SW ==
    /\ SW
    /\ \E v \in NEValues : NE_SW' = v
    /\ UNCHANGED <<SWM, NE_SWP, SWP>>
    /\ Mutated

Set_SWM ==
    /\ SW
    /\ \E v \in SWMValues : SWM' = v
    /\ UNCHANGED <<NE_SW, NE_SWP, SWP>>
    /\ Mutated

Set_NE_SWP ==
    /\ SSW
    /\ \E v \in NEValues : NE_SWP' = v
    /\ UNCHANGED <<NE_SW, SWM, SWP>>
    /\ Mutated

Set_SWP ==
    /\ SSW
    /\ \E v \in SWPValues : SWP' = v
    /\ UNCHANGED <<NE_SW, SWM, NE_SWP>>
    /\ Mutated

\* ------------------------------------------------------- specifications
\* the parameter values set by __init__
Init ==
    /\ cls \in Classes
    /\ NE_SW = 0
    /\ SWM = 0
    /\ NE_SWP = 0
    /\ SWP = 2 * Den
    /\ toas \in ToasSets
    /\ baryAvail \in BOOLEAN
    /\ sunRaises \in BOOLEAN
    /\ last = NoCall
    /\ snap = NoSnap

Next ==
    \/ SolarWind_solar_wind_geometry
    \/ SolarWind_solar_wind_dm
    \/ SolarWind_solar_wind_delay
    \/ SolarWind_d_dm_d_ne_sw
    \/ SolarWind_d_delay_d_ne_sw
    \/ Spherical_solar_wind_geometry
    \/ Spherical_solar_wind_dm
    \/ Spherical_solar_wind_delay
    \/ Spherical_d_dm_d_ne_sw
    \/ Spherical_d_delay_d_ne_sw
    \/ Set_NE_SW
    \/ Set_SWM
    \/ Set_NE_SWP
    \/ Set_SWP

Spec == Init /\ [][Next]_vars

\* The same calls, any one of which may be remembered in snap, to compare a
\* later call with an earlier one.
Dispatch(f_sw, f_ssw) == IF SW THEN f_sw ELSE f_ssw

Memo_solar_wind_geometry ==
    Call("solar_wind_geometry",
         Dispatch(SolarWindDispersion_solar_wind_geometry(toas),
                  SphericalSolarWindDispersion_solar_wind_geometry(toas)), TRUE)

Memo_solar_wind_dm ==
    Call("solar_wind_dm",
         Dispatch(SolarWindDispersion_solar_wind_dm(toas),
                  SphericalSolarWindDispersion_solar_wind_dm(toas)), TRUE)

Memo_solar_wind_delay ==
    Call("solar_wind_delay",
         Dispatch(SolarWindDispersion_solar_wind_delay(toas),
                  SphericalSolarWindDispersion_solar_wind_delay(toas)), TRUE)

Memo_d_dm_d_ne_sw ==
    Call("d_dm_d_ne_sw",
         Dispatch(SolarWindDispersion_d_dm_d_ne_sw(toas),
                  SphericalSolarWindDispersion_d_dm_d_ne_sw(toas)), TRUE)

Memo_d_delay_d_ne_sw ==
    Call("d_delay_d_ne_sw",
         Dispatch(SolarWindDispersion_d_delay_d_ne_sw(toas),
                  SphericalSolarWindDispersion_d_delay_d_ne_sw(toas)), TRUE)

InitMemo ==
    /\ Init
    /\ Len(toas) <= 1

NextMemo ==
    \/ Memo_solar_wind_geometry
    \/ Memo_solar_wind_dm
    \/ Memo_solar_wind_delay
    \/ Memo_d_dm_d_ne_sw
    \/ Memo_d_delay_d_ne_sw
    \/ Set_NE_SW
    \/ Set_SWM
    \/ Set_NE_SWP
    \/ Set_SWP

SpecMemo == InitMemo /\ [][NextMemo]_vars

TypeOK ==
    /\ cls \in Classes
    /\ NE_SW \in NEValues /\ NE_SWP \in NEValues
    /\ SWM \in SWMValues /\ SWP \in SWPValues
    /\ toas \in ToasSets
    /\ baryAvail \in BOOLEAN /\ sunRaises \in BOOLEAN
    /\ last.op \in {"none", "solar_wind_geometry", "solar_wind_dm", "solar_wind_delay",
                    "d_dm_d_ne_sw", "d_delay_d_ne_sw"}

\* ================================================================ claims
n == Len(toas)
res == last.res
AllZero == res.outcome = "ok" /\ res.vals = zeros(n)

\* the amplitude parameter of the instance, and the machinery's derivative
AmpName == IF SW THEN "NE_SW" ELSE "NE_SWP"
Machinery == d_delay_d_dmparam(toas, AmpName)
\* the frequency d_delay_d_ne_sw obtains for observation i
FreqUsed(i) == IF baryAvail THEN toas[i].bfreq ELSE toas[i].freq

\* C1: constant model, NE_SW = 0, any SWM: solar_wind_dm returns len(toas)
\* zeros in pc/cm^3 and solar_wind_delay len(toas) zeros in seconds, and
\* neither calls sun_angle nor the dispersion-delay evaluator.
C1_ZeroAmplitudeConstant ==
    (SW /\ NE_SW = 0 /\ last.op \in {"solar_wind_dm", "solar_wind_delay"}) =>
        /\ AllZero
        /\ res.unit = IF last.op = "solar_wind_dm" THEN pc_per_cm3 ELSE second
        /\ res.eff.sun = 0
        /\ res.eff.eval = 0

C1_Witness ==
    /\ SW /\ NE_SW = 0 /\ SWM # 0 /\ sunRaises /\ n = MaxLen
    /\ last.op = "solar_wind_dm" /\ AllZero /\ res.eff.sun = 0

\* C2: power-law model, SWP > 1 and NE_SWP = 0 (working geometry provider):
\* solar_wind_dm completes without raising and returns len(toas) zeros in
\* pc/cm^3.
C2_Claim ==
    (SSW /\ SWP > Den /\ NE_SWP = 0 /\ ~sunRaises /\ last.op = "solar_wind_dm") =>
        (AllZero /\ res.unit = pc_per_cm3)

\* C3: power-law model, NE_SWP = 0: neither solar_wind_dm nor
\* solar_wind_delay calls sun_angle, so a provider that raises does not make
\* the call fail.
C3_Claim ==
    (SSW /\ NE_SWP = 0 /\ last.op \in {"solar_wind_dm", "solar_wind_delay"}) =>
        (res.eff.sun = 0 /\ res.outcome # "ProviderError")

\* C4: power-law model, SWP <= 1 (working geometry provider):
\* solar_wind_geometry fails with NotImplementedError at every amplitude,
\* amplitude 0 included.
C4_Claim ==
    (SSW /\ SWP <= Den /\ ~sunRaises /\ last.op = "solar_wind_geometry") =>
        res.outcome = "NotImplementedError"

\* C5: constant model, SWM # 0 and NE_SW # 0: solar_wind_dm and d_dm_d_ne_sw
\* fail with NotImplementedError, the message cites the value of SWM, and
\* sun_angle is not called.
C5_Claim ==
    (SW /\ SWM # 0 /\ NE_SW # 0 /\ last.op \in {"solar_wind_dm", "d_dm_d_ne_sw"}) =>
        /\ res.outcome = "NotImplementedError"
        /\ res.msg.d * Den = SWM
        /\ res.eff.sun = 0

\* C6: both models: in the sequence d_delay_d_ne_sw returns, every entry
\* whose frequency is below 1 MHz is exactly 0 and every entry whose
\* frequency is at least 1 MHz is the entry d_delay_d_dmparam returned for
\* the amplitude parameter of the model.
C6_DerivativeMask ==
    (last.op = "d_delay_d_ne_sw" /\ res.outcome = "ok") =>
        /\ Machinery.outcome = "ok"
        /\ Len(res.vals) = n
        /\ \A i \in 1 .. n :
              /\ FreqUsed(i) < Den => res.vals[i] = Zero
              /\ FreqUsed(i) >= Den => res.vals[i] = Machinery.vals[i]

C6_Witness ==
    /\ last.op = "d_delay_d_ne_sw" /\ res.outcome = "ok"
    /\ \E i, j \in 1 .. n :
          /\ FreqUsed(i) < Den /\ res.vals[i] = Zero /\ Machinery.vals[i] # Zero
          /\ FreqUsed(j) >= Den /\ res.vals[j] # Zero

\* C7: both models: without a barycentric-frequency provider d_delay_d_ne_sw
\* warns exactly once, masks by the topocentric frequencies and fails only
\* where d_delay_d_dmparam fails; with the provider it does not warn and
\* does not read the topocentric frequencies.
C7_TopocentricFallback ==
    (last.op = "d_delay_d_ne_sw") =>
        /\ ~baryAvail =>
              /\ res.eff.warns = 1
              /\ res.eff.topo /\ ~res.eff.bary
              /\ res.outcome = Machinery.outcome
              /\ res.outcome = "ok" =>
                    \A i \in 1 .. n :
                        res.vals[i] = IF toas[i].freq < Den THEN Zero ELSE Machinery.vals[i]
        /\ baryAvail =>
              /\ res.eff.warns = 0
              /\ ~res.eff.topo /\ res.eff.bary
              /\ res.outcome = "ok" =>
                    \A i \in 1 .. n :
                        res.vals[i] = IF toas[i].bfreq < Den THEN Zero ELSE Machinery.vals[i]

C7_Witness ==
    /\ ~baryAvail /\ last.op = "d_delay_d_ne_sw" /\ res.outcome = "ok"
    /\ res.eff.warns = 1
    /\ \E i \in 1 .. n :
          toas[i].bfreq < Den /\ toas[i].freq >= Den /\ res.vals[i] # Zero

C9_Claim ==
    (/\ last.op = "d_dm_d_ne_sw" /\ ~sunRaises
     /\ (SW /\ SWM = 0) \/ (SSW /\ SWP > Den)) =>
        /\ res.outcome = "ok"
        /\ res.unit = au
        /\ res.vals = [i \in 1 .. n |->
                          IF SW THEN Term("edwards", FALSE, 0, 0, i, "")
                          ELSE Term("hazboun", FALSE, 0, SWP, i, "")]

\* C10: constant model: with NE_SW = 0 and SWM # 0, solar_wind_dm and
\* solar_wind_delay return all zeros without raising, while d_dm_d_ne_sw
\* fails with NotImplementedError for SWM # 0 at every amplitude.
C10_GuardOrder ==
    /\ (SW /\ NE_SW = 0 /\ SWM # 0 /\ last.op \in {"solar_wind_dm", "solar_wind_delay"})
          => AllZero
    /\ (SW /\ SWM # 0 /\ last.op = "d_dm_d_ne_sw") => res.outcome = "NotImplementedError"

C10_Witness ==
    /\ SW /\ NE_SW = 0 /\ SWM # 0
    /\ last.op = "d_dm_d_ne_sw" /\ res.outcome = "NotImplementedError"

====
